---------------------------- MODULE Spec2Model ----------------------------
(***************************************************************************)
(* Control flow and data orchestration of MetaOffPolicyAlgorithm           *)
(* (stable_baselines3/common/meta_off_policy_algorithm.py): the per-task   *)
(* buffer pools, collect_rollouts, obtain_samples, collect_data and the    *)
(* meta-training loop of learn().                                          *)
(*                                                                         *)
(* The program is single threaded.  Each method has a frame (a record with *)
(* a pc field and the method's locals); a call sets the callee's frame to  *)
(* its entry point and the caller waits until the callee's pc is           *)
(* "returned".  An exception that nothing catches unwinds every frame and  *)
(* is kept in err.                                                         *)
(*                                                                         *)
(* The environment, the actor, the callback and the gradient step are      *)
(* collaborators: the environment decides `done`, the callback decides     *)
(* what its hooks return or raise.                                         *)
(***************************************************************************)
EXTENDS Integers, Sequences, FiniteSets, TLC

\* ------------------------------------------------------------------ bounds
\* base_length of _setup_model (100 in the source), scaled down.
base_length == 2
\* Largest number of training tasks (n_traintasks) and of evaluation tasks.
MaxTasks == 2
MaxEvalTasks == 1
\* Number of learn() calls made in one behaviour.
MaxCalls == 2
\* Hyperparameters of _setup_model that do not derive from base_length,
\* scaled down (5, 2000 and 16 in the source).
num_tasks_sample == 2
num_train_steps_per_itr == 2
meta_batch == 2
\* Largest n_episodes of a direct collect_rollouts call.
MaxEpisodes == 2

\* --------------------------------------------------------------- constants
\* np.inf: larger than every count the model reaches.
Inf == 1000000
\* _setup_model, lines 230-242.
num_initial_steps == 10 * base_length
num_steps_prior == 2 * base_length
num_extra_rl_steps_posterior == 3 * base_length
update_post_train == 1
max_path_length == base_length
\* Default of collect_rollouts' n_steps.
DefaultNSteps == -1

\* ------------------------------------------------------------------ state
VARIABLES
    cfg,                 \* constructor arguments and the collaborators' behaviour
    RBList_replay,       \* self.RBList_replay  : task -> sequence of transitions
    RBList_encoder,      \* self.RBList_encoder : task -> sequence of transitions
    RBList_eval,         \* self.RBList_eval    : task -> sequence of transitions
    RB_id,               \* the ReplayBuffer object each slot of the pools refers to
    replay_buffer,       \* self.replay_buffer
    task_idx,            \* self.task_idx (-1: not set yet)
    initial_experience,  \* self.initial_experience
    num_timesteps,       \* self.num_timesteps
    episode_num,         \* self._episode_num
    n_env_steps_total,   \* self._n_env_steps_total
    n_train_steps_total, \* self._n_train_steps_total
    env,                 \* the environment: active task, position in the episode
    actor,               \* the actor: latent distribution, context, call counts
    logs,                \* logger, action noise and loss accumulators
    lrn,                 \* frame of learn
    cd,                  \* frame of collect_data
    os,                  \* frame of obtain_samples
    ro,                  \* frame of collect_rollouts
    err,                 \* the exception that ended the last top-level call
    calls,               \* number of top-level calls made
    hist                 \* history of the current call (observations only)

vars == <<cfg, RBList_replay, RBList_encoder, RBList_eval, RB_id,
          replay_buffer, task_idx,
          initial_experience, num_timesteps, episode_num, n_env_steps_total,
          n_train_steps_total, env, actor, logs, lrn, cd, os, ro, err, calls,
          hist>>

selfVars == <<task_idx, initial_experience, num_timesteps, episode_num,
              n_env_steps_total, n_train_steps_total>>
poolVars == <<RBList_replay, RBList_encoder, RBList_eval, RB_id>>

\* ---------------------------------------------------------------- helpers
RECURSIVE SumSeq(_)
SumSeq(s) == IF s = <<>> THEN 0 ELSE Head(s) + SumSeq(Tail(s))

\* ceil(a / b) for b > 0, 0 for a <= 0.
CeilDiv(a, b) == IF a <= 0 THEN 0 ELSE (a + b - 1) \div b

Tasks == 0 .. (cfg.n_traintasks - 1)
EvalTasks == 0 .. (cfg.n_evaltasks - 1)

\* A reference to one buffer of a pool.
Buf(pool, k) == [pool |-> pool, idx |-> k]

\* The slots of the three pools of an instance with nt training and ne
\* evaluation tasks.
Slots(nt, ne) ==
    {Buf("replay", k) : k \in 0 .. (nt - 1)}
      \cup {Buf("encoder", k) : k \in 0 .. (nt - 1)}
      \cup {Buf("eval", k) : k \in 0 .. (ne - 1)}

\* The objects the slots refer to after the loops of lines 199-228 and
\* 369-394: each pass constructs a ReplayBuffer of its own, so every slot has
\* an object no other slot has.  (One object per pool would be shared by all
\* the slots of that pool.)
NewBuffersShared(nt, ne) == [s \in Slots(nt, ne) |-> Buf(s.pool, 0)]
NewBuffers(nt, ne) == [s \in Slots(nt, ne) |-> s]

\* How often the list bufs names the object that slot k of pool p refers to.
Count(bufs, p, k) ==
    Cardinality({i \in DOMAIN bufs : RB_id[bufs[i]] = RB_id[Buf(p, k)]})

\* ReplayBuffer.reset on the object slot b refers to (line 444): every slot
\* of the pool named p that refers to it is seen empty.
ResetObjectAll(pool, p, b) == [k \in DOMAIN pool |-> <<>>]
ResetObject(pool, p, b) ==
    [k \in DOMAIN pool |-> IF RB_id[Buf(p, k)] = RB_id[b] THEN <<>> ELSE pool[k]]

\* ReplayBuffer.add on every buffer of the list that belongs to the pool named
\* p (collect_rollouts, lines 765-767): one append per occurrence.
AddAllDropping(pool, p, bufs, tr) == pool
AddAll(pool, p, bufs, tr) ==
    [k \in DOMAIN pool |-> pool[k] \o [i \in 1 .. Count(bufs, p, k) |-> tr]]

\* A fresh ReplayBuffer per slot (lines 199-228, 369-394).
FreshPoolStale(n) == [k \in 0 .. (n - 1) |-> <<[task |-> k, phase |-> "old", t |-> 0]>>]
FreshPool(n) == [k \in 0 .. (n - 1) |-> <<>>]

\* The number of transitions the buffers of a pool hold together.
PoolSize(pool) ==
    SumSeq([i \in 1 .. Cardinality(DOMAIN pool) |-> Len(pool[i - 1])])

\* A pool whose buffers each hold p transitions of earlier collection.
UsedPool(n, p) ==
    [k \in 0 .. (n - 1) |-> [i \in 1 .. p |-> [task |-> k, phase |-> "old", t |-> 0]]]

\* np.mean(episode_rewards) as a fraction; 0.0 is 0/1.
Zero == [num |-> 0, den |-> 1]
Mean(rs) == [num |-> SumSeq(rs), den |-> Len(rs)]

\* ----------------------------------------------------------------- frames
NoReturn == [valid |-> FALSE, mean_reward |-> Zero, total_steps |-> 0,
             total_episodes |-> 0, continue_training |-> TRUE]

RolloutReturn(m, s, e, c) ==
    [valid |-> TRUE, mean_reward |-> m, total_steps |-> s,
     total_episodes |-> e, continue_training |-> c]

ro0 == [pc |-> "idle", n_episodes |-> 0, n_steps |-> 0, rb_given |-> FALSE,
        replay_buffer |-> <<>>, action_noise |-> FALSE, accum_context |-> FALSE,
        total_steps |-> 0, total_episodes |-> 0, episode_rewards |-> <<>>,
        total_timesteps |-> <<>>, episode_reward |-> 0, episode_timesteps |-> 0,
        done |-> FALSE, continue_training |-> TRUE, ret |-> NoReturn]

os0 == [pc |-> "idle", max_samples |-> 0, max_trajs |-> 0, accum_context |-> FALSE,
        resample |-> 1, replaybuffers |-> <<>>, n_steps_total |-> 0, n_trajs |-> 0,
        ret |-> 0]

cd0 == [pc |-> "idle", num_samples |-> 0, resample_z_rate |-> 1,
        update_posterior_rate |-> Inf, add_to_enc_buffer |-> TRUE,
        num_transitions |-> 0]

lrn0 == [pc |-> "idle", it |-> 0, idx |-> 0, i |-> 0, train_step |-> 0,
         phase |-> "none"]

\* Observations of the current top-level call: the hooks invoked and the episode
\* ends seen in the current rollout; the steps, stored transitions, rollouts and
\* actor calls of the current collect_data call and the counter and buffers as
\* they were when it started; the rollouts, rounds, iterations, bootstrap tasks
\* and log dumps of the current learn call, and the collections of its current
\* round with the number of transitions they stored for the encoder, and what
\* the index array of its last _do_training call was like; the number of
\* transitions each pool held when reset_buffers last replaced its buffers;
\* the last call of save_replay_buffer or load_replay_buffer.
hist0 == [rolloutStart |-> 0, rolloutEnd |-> 0, hookFalse |-> FALSE, ends |-> 0,
          stepNo |-> 0, stored |-> <<>>, rollouts |-> 0, trajs |-> 0,
          clearZ |-> 0, sampleZ |-> 0, infer |-> 0,
          env0 |-> 0, rep0 |-> <<>>, enc0 |-> <<>>,
          l_rollouts |-> 0, l_rounds |-> 0, l_iters |-> 0, l_boot |-> <<>>,
          l_logs |-> 0, l_end |-> 0, l_enc |-> 0, l_phases |-> <<>>,
          l_batch |-> [size |-> 0, inRange |-> TRUE, repeated |-> FALSE,
                       filled |-> TRUE],
          dropped |-> [replay |-> 0, encoder |-> 0, eval |-> 0],
          io |-> [op |-> "none", path |-> "", truncate_last_traj |-> TRUE]]

logs0 == [dumps |-> 0, noise_resets |-> 0, losses |-> 0]

\* An uncaught exception: every frame is unwound.
Raise(e) ==
    /\ err' = e
    /\ ro' = ro0
    /\ os' = os0
    /\ cd' = cd0
    /\ lrn' = lrn0


\* ------------------------------------------------- collaborators' behaviour
\* What callback.update_locals / callback.on_step do at one step: on_step
\* returns None, True, 0 (equal to False, but not the object False) or False,
\* or raises; update_locals raises; or the callback is None ("Absent": every
\* attribute access raises AttributeError).
HookOutcomes == {"None", "True", "Zero", "False", "Raise", "LocalsRaise"}
HookChoices == IF cfg.hookMode = "free" THEN HookOutcomes ELSE {cfg.hookMode}

\* The `done` flag env.step may return: any (envLen = 0), or True exactly at
\* the envLen-th step of an episode.
DoneChoices == IF cfg.envLen = 0 THEN BOOLEAN ELSE {env.epStep + 1 = cfg.envLen}

\* The reward of one step.
Reward == 1

\* The current call site of collect_data in learn, "direct" outside learn.
Phase == IF lrn.pc = "idle" THEN "direct" ELSE lrn.phase

\* The transition (o, next_o, a, reward, done, infos) of one environment step,
\* identified by the task the environment is set to, the collection phase and
\* the step's number within the current collection call.
Transition(n) == [task |-> env.task, phase |-> Phase, t |-> n]

\* ---------------------------------------------------------- collect_rollouts
\* Lines 706-707: the frame of a call.
EnterRollout(n_episodes, n_steps, rb_given, bufs, noise, accum) ==
    [ro0 EXCEPT !.pc = "enter", !.n_episodes = n_episodes, !.n_steps = n_steps,
                !.rb_given = rb_given, !.replay_buffer = bufs,
                !.action_noise = noise, !.accum_context = accum]

\* Line 754: only the object False cancels.
CancelsOnFalsy(h) == h \in {"False", "Zero", "None"}
CancelsNever(h) == FALSE
Cancels(h) == h = "False"

\* Lines 714-717, 750-757 and 803-807: a hook call that raises (None has no
\* attributes), and the bare `except: pass` around it, which lets nothing out.
HookRaises(h) == h \in {"Raise", "LocalsRaise", "Absent"}
ExceptPassesNothing(h) == FALSE
ExceptPasses(h) == TRUE

\* Line 710: the assertion on env.num_envs.
SingleEnvAny(n) == TRUE
SingleEnv(n) == n = 1

\* What on_rollout_start and on_rollout_end do: as the callback's mode says; a
\* callback whose step hook is free returns normally from both.
EdgeHook == IF cfg.hookMode = "free" THEN "None" ELSE cfg.hookMode

\* Line 780: the n_steps truncation.
TruncatedNever(n_steps, total_steps) == FALSE
Truncated(n_steps, total_steps) == 0 < n_steps /\ n_steps <= total_steps

\* Line 721: the outer loop's condition.
OuterCond(f) == f.total_steps < f.n_steps /\ f.total_episodes < f.n_episodes

\* Lines 709-719: the assertions, on_rollout_start (its failure swallowed) and
\* env.reset().
RolloutStart ==
    /\ ro.pc = "enter"
    /\ IF ~SingleEnv(cfg.num_envs)
       THEN /\ Raise("AssertionError")
            /\ UNCHANGED <<env, hist>>
       ELSE IF HookRaises(EdgeHook) /\ ~ExceptPasses(EdgeHook)
       THEN /\ Raise("HookError")
            /\ UNCHANGED <<env, hist>>
       ELSE /\ ro' = [ro EXCEPT !.pc = "outer", !.continue_training = TRUE]
            /\ env' = [env EXCEPT !.epStep = 0]
            /\ hist' = [hist EXCEPT
                          !.rolloutStart = IF cfg.hookMode = "Absent" THEN 0 ELSE 1,
                          !.rolloutEnd = 0,
                          !.hookFalse = FALSE,
                          !.ends = 0,
                          !.rollouts = @ + 1,
                          !.l_rollouts = @ + 1]
            /\ UNCHANGED <<os, cd, lrn, err>>
    /\ UNCHANGED <<cfg, replay_buffer, poolVars, selfVars, actor, logs, calls>>

\* Lines 721-723: the outer loop's test and the start of an episode.
RolloutOuter ==
    /\ ro.pc = "outer"
    /\ ro' = IF OuterCond(ro)
             THEN [ro EXCEPT !.pc = "inner", !.done = FALSE,
                             !.episode_reward = 0, !.episode_timesteps = 0]
             ELSE [ro EXCEPT !.pc = "exit"]
    /\ UNCHANGED <<cfg, replay_buffer, poolVars, selfVars, env, actor, logs, os, cd, lrn, err,
                   calls, hist>>

\* Lines 725-785: one pass of the inner loop: env.step, the counters, the step
\* hook, the writes to the buffers and the n_steps truncation.
RolloutStep ==
    /\ ro.pc = "inner"
    /\ \E d \in DoneChoices, h \in HookChoices :
        LET steps == ro.total_steps + 1
            tr == Transition(hist.stepNo + 1)
            bufs == IF ro.rb_given THEN ro.replay_buffer ELSE <<>>
            trunc == Truncated(ro.n_steps, steps)
        IN
        /\ env' = [env EXCEPT !.epStep = IF d THEN 0 ELSE @ + 1]
        /\ actor' = IF ro.accum_context
                    THEN [actor EXCEPT !.context = @ + 1] ELSE actor
        /\ num_timesteps' = num_timesteps + 1
        /\ IF HookRaises(h) /\ ~ExceptPasses(h)
           THEN /\ Raise("HookError")
                /\ hist' = [hist EXCEPT !.stepNo = @ + 1]
                /\ UNCHANGED <<poolVars, episode_num>>
           ELSE IF Cancels(h)
           THEN \* line 755
                /\ UNCHANGED <<os, cd, lrn, err>>
                /\ ro' = [ro EXCEPT !.pc = "returned", !.done = d,
                            !.total_steps = steps,
                            !.episode_timesteps = @ + 1,
                            !.ret = RolloutReturn(Zero, steps, ro.total_episodes, FALSE)]
                /\ hist' = [hist EXCEPT !.stepNo = @ + 1, !.hookFalse = TRUE]
                /\ UNCHANGED <<poolVars, episode_num>>
           ELSE /\ UNCHANGED <<os, cd, lrn, err>>
                /\ RBList_replay' = AddAll(RBList_replay, "replay", bufs, tr)
                /\ RBList_encoder' = AddAll(RBList_encoder, "encoder", bufs, tr)
                /\ RBList_eval' = AddAll(RBList_eval, "eval", bufs, tr)
                /\ UNCHANGED RB_id
                /\ hist' = [hist EXCEPT !.stepNo = @ + 1,
                              !.hookFalse = h = "False",
                              !.ends = IF d \/ (0 < ro.n_steps /\ ro.n_steps <= steps)
                                       THEN @ + 1 ELSE @,
                              !.stored = Append(@, tr)]
                /\ episode_num' = IF trunc THEN episode_num + 1 ELSE episode_num
                /\ ro' = [ro EXCEPT
                            !.done = d,
                            !.total_steps = steps,
                            !.episode_timesteps = @ + 1,
                            !.episode_reward = @ + Reward,
                            !.total_episodes = IF trunc THEN @ + 1 ELSE @,
                            !.episode_rewards =
                                IF trunc THEN Append(@, ro.episode_reward + Reward) ELSE @,
                            !.total_timesteps =
                                IF trunc THEN Append(@, ro.episode_timesteps + 1) ELSE @,
                            !.pc = IF trunc \/ d THEN "afterInner" ELSE "inner"]
    /\ UNCHANGED <<cfg, replay_buffer, task_idx, initial_experience, n_env_steps_total,
                   n_train_steps_total, logs, calls>>

\* Lines 787-800: the block after the inner loop.
RolloutAfterInner ==
    /\ ro.pc = "afterInner"
    /\ IF ro.done
       THEN /\ ro' = [ro EXCEPT !.pc = "outer",
                        !.total_episodes = @ + 1,
                        !.episode_rewards = Append(@, ro.episode_reward),
                        !.total_timesteps = Append(@, ro.episode_timesteps)]
            /\ episode_num' = episode_num + 1
            /\ logs' = [logs EXCEPT
                          !.noise_resets = IF ro.action_noise THEN @ + 1 ELSE @,
                          !.dumps = @ + 1]
       ELSE /\ ro' = [ro EXCEPT !.pc = "outer"]
            /\ UNCHANGED <<episode_num, logs>>
    /\ UNCHANGED <<cfg, replay_buffer, poolVars, task_idx, initial_experience, num_timesteps,
                   n_env_steps_total, n_train_steps_total, env, actor, os, cd,
                   lrn, err, calls, hist>>

\* Lines 802-808: the mean reward, on_rollout_end (its failure swallowed) and
\* the return.
RolloutExit ==
    /\ ro.pc = "exit"
    /\ IF HookRaises(EdgeHook) /\ ~ExceptPasses(EdgeHook)
       THEN Raise("HookError")
       ELSE /\ ro' = [ro EXCEPT !.pc = "returned",
                       !.ret = RolloutReturn(
                           IF ro.total_episodes > 0 THEN Mean(ro.episode_rewards)
                           ELSE Zero,
                           ro.total_steps, ro.total_episodes, ro.continue_training)]
            /\ UNCHANGED <<os, cd, lrn, err>>
    \* update_locals comes first (line 804): when it raises, on_rollout_end
    \* is not reached.
    /\ hist' = [hist EXCEPT
                  !.rolloutEnd = IF EdgeHook \in {"Absent", "LocalsRaise"} THEN 0 ELSE 1]
    /\ UNCHANGED <<cfg, replay_buffer, poolVars, selfVars, env, actor, logs, calls>>


\* ----------------------------------------------------------- obtain_samples
EnterObtain(max_samples, max_trajs, accum, resample, bufs) ==
    [os0 EXCEPT !.pc = "enter", !.max_samples = max_samples,
                !.max_trajs = max_trajs, !.accum_context = accum,
                !.resample = resample, !.replaybuffers = bufs]

\* Line 518: the assertion on the two limits.
ObtainPreAny(f) == TRUE
ObtainPre(f) == f.max_samples < Inf \/ f.max_trajs < Inf

\* Line 522: the loop's condition.
ObtainCondTrajsOnly(f) == f.n_trajs < f.max_trajs
ObtainCond(f) == f.n_steps_total < f.max_samples /\ f.n_trajs < f.max_trajs

\* Line 535: what one rollout adds to n_steps_total.
TrajLenActual(rollout) == rollout.total_steps
TrajLen(rollout) == max_path_length

\* Lines 518-521: the assertion and the counters.
ObtainStart ==
    /\ os.pc = "enter"
    /\ IF ObtainPre(os)
       THEN /\ os' = [os EXCEPT !.pc = "loop", !.n_steps_total = 0, !.n_trajs = 0]
            /\ UNCHANGED <<ro, cd, lrn, err>>
       ELSE Raise("AssertionError")
    /\ UNCHANGED <<cfg, replay_buffer, poolVars, selfVars, env, actor, logs, calls, hist>>

\* Lines 522-534 and 540: the loop's test; the call of collect_rollouts or the
\* return of n_steps_total.
ObtainLoop ==
    /\ os.pc = "loop"
    /\ IF ObtainCond(os)
       THEN /\ os' = [os EXCEPT !.pc = "wait"]
            /\ ro' = EnterRollout(1, max_path_length, TRUE, os.replaybuffers,
                                  cfg.action_noise, os.accum_context)
       ELSE /\ os' = [os EXCEPT !.pc = "returned", !.ret = os.n_steps_total]
            /\ UNCHANGED ro
    /\ UNCHANGED <<cfg, replay_buffer, poolVars, selfVars, env, actor, logs, cd, lrn, err,
                   calls, hist>>

\* Lines 535-539: after a rollout.
ObtainAfterRollout ==
    /\ os.pc = "wait"
    /\ ro.pc = "returned"
    /\ LET trajs == os.n_trajs + 1
           again == trajs % os.resample = 0
       IN /\ os' = [os EXCEPT !.pc = "loop",
                       !.n_steps_total = @ + TrajLen(ro.ret),
                       !.n_trajs = trajs]
          /\ actor' = IF again THEN [actor EXCEPT !.z = "sampled"] ELSE actor
          /\ hist' = [hist EXCEPT !.trajs = @ + 1,
                                  !.sampleZ = IF again THEN @ + 1 ELSE @]
    /\ ro' = ro0
    /\ UNCHANGED <<cfg, replay_buffer, poolVars, selfVars, env, logs, cd, lrn, err, calls>>

\* ------------------------------------------------------------- collect_data
EnterCollect(num_samples, resample_z_rate, update_posterior_rate, add_to_enc) ==
    [cd0 EXCEPT !.pc = "enter", !.num_samples = num_samples,
                !.resample_z_rate = resample_z_rate,
                !.update_posterior_rate = update_posterior_rate,
                !.add_to_enc_buffer = add_to_enc]

\* Lines 490-501: the buffers a rollout writes to.
CollectBuffersReplayOnly(add_to_enc, k) == <<Buf("replay", k)>>
CollectBuffers(add_to_enc, k) ==
    IF add_to_enc THEN <<Buf("replay", k), Buf("encoder", k)>>
    ELSE <<Buf("replay", k)>>

\* Line 489: the loop's condition.
CollectCond(f) == f.num_transitions < f.num_samples

\* Lines 486-488: clear_z and the counter.
CollectStart ==
    /\ cd.pc = "enter"
    /\ cd' = [cd EXCEPT !.pc = "loop", !.num_transitions = 0]
    /\ actor' = [actor EXCEPT !.z_means = "zeros", !.z_vars = "ones",
                              !.z = "sampled", !.context = 0]
    /\ hist' = [hist EXCEPT !.stepNo = 0, !.stored = <<>>, !.rollouts = 0,
                  !.trajs = 0, !.clearZ = 1, !.sampleZ = 0, !.infer = 0,
                  !.env0 = n_env_steps_total,
                  !.rep0 = RBList_replay[task_idx],
                  !.enc0 = RBList_encoder[task_idx]]
    /\ UNCHANGED <<cfg, replay_buffer, poolVars, selfVars, env, logs, os, ro, lrn, err, calls>>

\* Lines 489-501 and 509: the loop's test; the call of obtain_samples or the
\* update of _n_env_steps_total.
CollectLoop ==
    /\ cd.pc = "loop"
    /\ IF CollectCond(cd)
       THEN /\ cd' = [cd EXCEPT !.pc = "wait"]
            /\ os' = EnterObtain(cd.num_samples - cd.num_transitions,
                                 cd.update_posterior_rate, FALSE,
                                 cd.resample_z_rate,
                                 CollectBuffers(cd.add_to_enc_buffer, task_idx))
            /\ UNCHANGED n_env_steps_total
       ELSE /\ cd' = [cd EXCEPT !.pc = "returned"]
            /\ n_env_steps_total' = n_env_steps_total + cd.num_transitions
            /\ UNCHANGED os
    /\ UNCHANGED <<cfg, replay_buffer, poolVars, task_idx, initial_experience, num_timesteps,
                   episode_num, n_train_steps_total, env, actor, logs, ro, lrn,
                   err, calls, hist>>

\* Line 503: whether the posterior is inferred after an obtain_samples call.
InfersPosteriorAlways(rate) == TRUE
InfersPosterior(rate) == rate # Inf

\* Lines 503-507: the posterior update and the accumulation.
CollectAfterObtain ==
    /\ cd.pc = "wait"
    /\ os.pc = "returned"
    /\ LET post == InfersPosterior(cd.update_posterior_rate)
       IN /\ actor' = IF post
                      THEN [actor EXCEPT !.z_means = "posterior",
                                         !.z_vars = "posterior",
                                         !.inferred_from = Len(RBList_encoder[task_idx])]
                      ELSE actor
          /\ hist' = [hist EXCEPT !.infer = IF post THEN @ + 1 ELSE @]
    /\ cd' = [cd EXCEPT !.pc = "loop", !.num_transitions = @ + os.ret]
    /\ os' = os0
    /\ UNCHANGED <<cfg, replay_buffer, poolVars, selfVars, env, logs, ro, lrn, err, calls>>


\* -------------------------------------------------------------------- learn
\* Line 238: self.num_iterations, which learn never reads.
num_iterations == 500

\* Line 423: range(1).
MetaIterationsFromConfig == num_iterations
MetaIterations == 1

\* Lines 447-454: the three collections of a task-sampling round.
PhaseSamples(ph) ==
    CASE ph = "prior" -> num_steps_prior
      [] ph = "post" -> cfg.num_steps_posterior
      [] ph = "extra" -> num_extra_rl_steps_posterior
PhaseRate(ph) == IF ph = "prior" THEN Inf ELSE update_post_train
PhaseAddEncAlways(ph) == TRUE
PhaseAddEnc(ph) == ph # "extra"
NextPhase(ph) ==
    CASE ph = "prior" -> "post"
      [] ph = "post" -> "extra"
      [] ph = "extra" -> "rounds"

\* Line 434 and 443: env.env_method("reset_task", self.task_idx).
ResetTaskStale(e, k) == e
ResetTask(e, k) == [e EXCEPT !.task = k]

\* Line 424: whether the bootstrap is due.
BootstrapAlways == TRUE
BootstrapDue == initial_experience = FALSE

\* Lines 409-413: _setup_learn, self.callback and on_training_start, which
\* nothing guards.
LearnStart ==
    /\ lrn.pc = "enter"
    /\ IF cfg.cbTrain \in {"ok", "raiseEnd"}
       THEN /\ lrn' = [lrn EXCEPT !.pc = "iter", !.it = 0]
            /\ UNCHANGED <<ro, os, cd, err>>
       ELSE Raise(IF cfg.cbTrain = "absent" THEN "AttributeError" ELSE "HookError")
    /\ UNCHANGED <<cfg, replay_buffer, poolVars, selfVars, env, actor, logs, calls, hist>>

\* Lines 423-430: the head of the meta-iteration and of the bootstrap.
LearnIter ==
    /\ lrn.pc = "iter"
    /\ IF lrn.it = 0 /\ BootstrapDue
       THEN /\ actor' = [actor EXCEPT !.z_means = "zeros", !.z_vars = "ones",
                                      !.z = "sampled", !.context = 0]
            /\ lrn' = [lrn EXCEPT !.pc = "boot", !.idx = 0]
       ELSE /\ lrn' = [lrn EXCEPT !.pc = "rounds", !.i = 0]
            /\ UNCHANGED actor
    /\ hist' = [hist EXCEPT !.l_iters = @ + 1]
    /\ UNCHANGED <<cfg, replay_buffer, poolVars, selfVars, env, logs, ro, os, cd, err, calls>>

\* Lines 432-433 and 436: the bootstrap's loop over the training tasks.
LearnBootLoop ==
    /\ lrn.pc = "boot"
    /\ IF lrn.idx < cfg.n_traintasks
       THEN /\ task_idx' = lrn.idx
            /\ lrn' = [lrn EXCEPT !.pc = "boot_reset"]
            /\ UNCHANGED initial_experience
       ELSE /\ initial_experience' = TRUE
            /\ lrn' = [lrn EXCEPT !.pc = "rounds", !.i = 0]
            /\ UNCHANGED task_idx
    /\ UNCHANGED <<cfg, replay_buffer, poolVars, num_timesteps, episode_num, n_env_steps_total,
                   n_train_steps_total, env, actor, logs, ro, os, cd, err, calls,
                   hist>>

\* Lines 434-435: reset_task and the initial collection.
LearnBootCollect ==
    /\ lrn.pc = "boot_reset"
    /\ env' = ResetTask(env, task_idx)
    /\ cd' = EnterCollect(num_initial_steps, 1, Inf, TRUE)
    /\ lrn' = [lrn EXCEPT !.pc = "boot_wait", !.phase = "init"]
    /\ hist' = [hist EXCEPT !.l_boot = Append(@, task_idx)]
    /\ UNCHANGED <<cfg, replay_buffer, poolVars, selfVars, actor, logs, ro, os, err, calls>>

\* Line 432: the next task of the bootstrap.
LearnBootNext ==
    /\ lrn.pc = "boot_wait"
    /\ cd.pc = "returned"
    /\ cd' = cd0
    /\ lrn' = [lrn EXCEPT !.pc = "boot", !.idx = @ + 1, !.phase = "none"]
    /\ UNCHANGED <<cfg, replay_buffer, poolVars, selfVars, env, actor, logs, ro, os, err, calls,
                   hist>>

\* Line 441: the values np.random.randint(n) may return; there is none for
\* n <= 0, where it raises ValueError.
RandIntClamped(n) == IF n <= 0 THEN {0} ELSE 0 .. (n - 1)
RandInt(n) == 0 .. (n - 1)

\* Lines 440-442: the loop of the task-sampling rounds and the draw of idx.
LearnRoundLoop ==
    /\ lrn.pc = "rounds"
    /\ IF lrn.i < num_tasks_sample
       THEN IF RandInt(cfg.n_traintasks) = {}
            THEN /\ Raise("ValueError")
                 /\ UNCHANGED task_idx
            ELSE /\ \E idx \in RandInt(cfg.n_traintasks) :
                      /\ task_idx' = idx
                      /\ lrn' = [lrn EXCEPT !.pc = "round_reset", !.idx = idx]
                 /\ UNCHANGED <<ro, os, cd, err>>
       ELSE /\ lrn' = [lrn EXCEPT !.pc = "grad", !.train_step = 0]
            /\ UNCHANGED <<task_idx, ro, os, cd, err>>
    /\ UNCHANGED <<cfg, replay_buffer, poolVars, initial_experience, num_timesteps, episode_num,
                   n_env_steps_total, n_train_steps_total, env, actor, logs,
                   calls, hist>>

\* Lines 443-444: reset_task and the reset of the task's encoder buffer.
LearnRoundReset ==
    /\ lrn.pc = "round_reset"
    /\ env' = ResetTask(env, task_idx)
    /\ RBList_replay' = ResetObject(RBList_replay, "replay", Buf("encoder", lrn.idx))
    /\ RBList_encoder' = ResetObject(RBList_encoder, "encoder", Buf("encoder", lrn.idx))
    /\ RBList_eval' = ResetObject(RBList_eval, "eval", Buf("encoder", lrn.idx))
    /\ lrn' = [lrn EXCEPT !.pc = "prior"]
    /\ hist' = [hist EXCEPT !.l_enc = 0, !.l_phases = <<>>]
    /\ UNCHANGED <<cfg, replay_buffer, RB_id, selfVars, actor, logs, ro, os, cd, err, calls>>

\* Lines 447-454: the guard of one collection of the round and its call.
LearnPhase ==
    /\ lrn.pc \in {"prior", "post", "extra"}
    /\ IF PhaseSamples(lrn.pc) > 0
       THEN /\ cd' = EnterCollect(PhaseSamples(lrn.pc), 1, PhaseRate(lrn.pc),
                                  PhaseAddEnc(lrn.pc))
            /\ lrn' = [lrn EXCEPT !.pc = "wait", !.phase = lrn.pc]
            /\ hist' = [hist EXCEPT !.l_phases = Append(@, lrn.pc)]
       ELSE /\ lrn' = [lrn EXCEPT !.pc = NextPhase(lrn.pc),
                                  !.i = IF lrn.pc = "extra" THEN @ + 1 ELSE @]
            /\ hist' = [hist EXCEPT
                          !.l_rounds = IF lrn.pc = "extra" THEN @ + 1 ELSE @]
            /\ UNCHANGED cd
    /\ UNCHANGED <<cfg, replay_buffer, poolVars, selfVars, env, actor, logs, ro, os, err, calls>>

\* The return of one collection of the round; after the last one, line 440.
LearnPhaseDone ==
    /\ lrn.pc = "wait"
    /\ cd.pc = "returned"
    /\ cd' = cd0
    /\ lrn' = [lrn EXCEPT !.pc = NextPhase(lrn.phase), !.phase = "none",
                          !.i = IF lrn.phase = "extra" THEN @ + 1 ELSE @]
    /\ hist' = [hist EXCEPT
                  !.l_rounds = IF lrn.phase = "extra" THEN @ + 1 ELSE @,
                  !.l_enc = IF lrn.phase = "extra" THEN @ ELSE @ + Len(hist.stored)]
    /\ UNCHANGED <<cfg, replay_buffer, poolVars, selfVars, env, actor, logs, ro, os, err, calls>>

\* Line 459: np.random.choice(self.n_traintasks, self.meta_batch), which draws
\* with replacement.
MetaBatchChoices == [1 .. meta_batch -> Tasks]

\* Line 461: the counter after one update.
TrainStepsKept(n) == n
TrainStepsAfter(n) == n + 1

\* Lines 458-461: one gradient update on a meta-batch of task indices; the
\* index array is a local that the next pass overwrites.
LearnGrad ==
    /\ lrn.pc = "grad"
    /\ IF lrn.train_step < num_train_steps_per_itr
       THEN /\ \E indices \in MetaBatchChoices :
                 hist' = [hist EXCEPT !.l_batch =
                    [size |-> Len(indices),
                     inRange |-> \A a \in DOMAIN indices :
                                    0 <= indices[a] /\ indices[a] < cfg.n_traintasks,
                     repeated |-> \E a, b \in DOMAIN indices :
                                    a # b /\ indices[a] = indices[b],
                     filled |-> \A a \in DOMAIN indices :
                                    /\ RBList_replay[indices[a]] # <<>>
                                    /\ RBList_encoder[indices[a]] # <<>>]]
            /\ lrn' = [lrn EXCEPT !.train_step = @ + 1]
            /\ logs' = [logs EXCEPT !.losses = @ + 1]
            /\ n_train_steps_total' = TrainStepsAfter(n_train_steps_total)
       ELSE /\ lrn' = [lrn EXCEPT !.pc = "log"]
            /\ UNCHANGED <<logs, n_train_steps_total, hist>>
    /\ UNCHANGED <<cfg, replay_buffer, poolVars, task_idx, initial_experience, num_timesteps,
                   episode_num, n_env_steps_total, env, actor, ro, os, cd, err,
                   calls>>

\* Lines 465-469 and 423: _dump_logs, the loss accumulators, the next
\* meta-iteration.
LearnLog ==
    /\ lrn.pc = "log"
    /\ logs' = [logs EXCEPT !.dumps = @ + 1, !.losses = 0]
    /\ lrn' = [lrn EXCEPT !.it = @ + 1,
                          !.pc = IF lrn.it + 1 < MetaIterations THEN "iter" ELSE "end"]
    /\ hist' = [hist EXCEPT !.l_logs = @ + 1]
    /\ UNCHANGED <<cfg, replay_buffer, poolVars, selfVars, env, actor, ro, os, cd, err, calls>>

\* Lines 471-473: on_training_end, which nothing guards, and the return.
LearnEnd ==
    /\ lrn.pc = "end"
    /\ IF cfg.cbTrain \in {"ok", "raiseStart"}
       THEN /\ lrn' = [lrn EXCEPT !.pc = "returned"]
            /\ UNCHANGED <<ro, os, cd, err>>
       ELSE Raise("HookError")
    /\ hist' = [hist EXCEPT !.l_end = @ + 1]
    /\ UNCHANGED <<cfg, replay_buffer, poolVars, selfVars, env, actor, logs, calls>>

\* ------------------------------------------------------------ reset_buffers
\* Lines 367-394.
reset_buffers ==
    /\ RBList_replay' = FreshPool(cfg.n_traintasks)
    /\ RBList_encoder' = FreshPool(cfg.n_traintasks)
    /\ RBList_eval' = FreshPool(cfg.n_evaltasks)
    /\ RB_id' = NewBuffers(cfg.n_traintasks, cfg.n_evaltasks)


\* ------------------------------------ save_replay_buffer, load_replay_buffer
\* The files a caller names.
Paths == {"a.pkl", "b.pkl"}

\* Lines 277 and 296: the first statement of both methods raises
\* NotImplementedError, whatever the arguments.
RaisesNotImplementedNever(path) == FALSE
RaisesNotImplemented(path) == TRUE

\* Lines 271-280: save_replay_buffer(path); what follows the raise is
\* commented out.
save_replay_buffer(path) ==
    /\ err' = IF RaisesNotImplemented(path) THEN "NotImplementedError" ELSE "none"
    /\ UNCHANGED replay_buffer

\* Lines 282-311: load_replay_buffer(path, truncate_last_traj); line 298
\* would assign what the file holds.
load_replay_buffer(path, truncate_last_traj) ==
    IF RaisesNotImplemented(path)
    THEN /\ err' = "NotImplementedError"
         /\ UNCHANGED replay_buffer
    ELSE /\ err' = "none"
         /\ replay_buffer' = path

\* ---------------------------------------------------------- top-level calls
Idle == lrn.pc = "idle" /\ cd.pc = "idle" /\ os.pc = "idle" /\ ro.pc = "idle"

\* A call of learn().
CallLearn ==
    /\ Idle
    /\ calls < MaxCalls
    /\ calls' = calls + 1
    /\ lrn' = [lrn0 EXCEPT !.pc = "enter"]
    /\ err' = "none"
    /\ hist' = hist0
    /\ logs' = logs0
    /\ UNCHANGED <<cfg, replay_buffer, poolVars, selfVars, env, actor, cd, os, ro>>

ReturnLearn ==
    /\ lrn.pc = "returned"
    /\ lrn' = lrn0
    /\ UNCHANGED <<cfg, replay_buffer, poolVars, selfVars, env, actor, logs, cd, os, ro, err,
                   calls, hist>>

\* A call of reset_buffers() between two calls.
ResetBuffers ==
    /\ Idle
    /\ reset_buffers
    /\ hist' = [hist EXCEPT !.dropped = [replay |-> PoolSize(RBList_replay),
                                         encoder |-> PoolSize(RBList_encoder),
                                         eval |-> PoolSize(RBList_eval)]]
    /\ UNCHANGED <<cfg, replay_buffer, selfVars, env, actor, logs, lrn, cd, os, ro, err, calls>>

\* A call of save_replay_buffer(path) between two calls.
SaveReplayBuffer ==
    /\ Idle
    /\ \E path \in Paths :
          /\ save_replay_buffer(path)
          /\ hist' = [hist EXCEPT !.io = [op |-> "save", path |-> path,
                                           truncate_last_traj |-> TRUE]]
    /\ UNCHANGED <<cfg, poolVars, selfVars, env, actor, logs, lrn, cd, os, ro,
                   calls>>

\* A call of load_replay_buffer(path, truncate_last_traj) between two calls.
LoadReplayBuffer ==
    /\ Idle
    /\ \E path \in Paths, truncate_last_traj \in BOOLEAN :
          /\ load_replay_buffer(path, truncate_last_traj)
          /\ hist' = [hist EXCEPT !.io = [op |-> "load", path |-> path,
                                           truncate_last_traj |-> truncate_last_traj]]
    /\ UNCHANGED <<cfg, poolVars, selfVars, env, actor, logs, lrn, cd, os, ro,
                   calls>>

\* A call of collect_data(num_samples, resample_z_rate, update_posterior_rate,
\* add_to_enc_buffer) with the task index already set.
CallCollectData ==
    /\ Idle
    /\ calls = 0
    /\ calls' = calls + 1
    /\ \E n \in -1 .. (2 * max_path_length + 1), rs \in 1 .. 2,
          rate \in {1, 2, Inf}, enc \in BOOLEAN :
          cd' = EnterCollect(n, rs, rate, enc)
    /\ err' = "none"
    /\ hist' = hist0
    /\ logs' = logs0
    /\ UNCHANGED <<cfg, replay_buffer, poolVars, selfVars, env, actor, lrn, os, ro>>

ReturnCollect ==
    /\ cd.pc = "returned"
    /\ lrn.pc = "idle"
    /\ cd' = cd0
    /\ UNCHANGED <<cfg, replay_buffer, poolVars, selfVars, env, actor, logs, lrn, os, ro, err,
                   calls, hist>>

\* A call of obtain_samples(max_samples=..., max_trajs=..., accum_context=...,
\* resample=..., replaybuffers=...); both limits default to np.inf.
CallObtainSamples ==
    /\ Idle
    /\ calls = 0
    /\ calls' = calls + 1
    /\ \E ms \in {1, max_path_length + 1, Inf}, mt \in {1, 2, Inf},
          accum \in BOOLEAN, rs \in 1 .. 2,
          bufs \in {<<>>} \cup {CollectBuffers(e, k) : e \in BOOLEAN, k \in Tasks} :
          os' = EnterObtain(ms, mt, accum, rs, bufs)
    /\ err' = "none"
    /\ hist' = hist0
    /\ logs' = logs0
    /\ UNCHANGED <<cfg, replay_buffer, poolVars, selfVars, env, actor, lrn, cd, ro>>

ReturnObtain ==
    /\ os.pc = "returned"
    /\ cd.pc = "idle"
    /\ os' = os0
    /\ UNCHANGED <<cfg, replay_buffer, poolVars, selfVars, env, actor, logs, lrn, cd, ro, err,
                   calls, hist>>

\* The lists of buffers a direct caller of collect_rollouts passes.
BufferLists ==
    {<<>>} \cup {<<Buf("replay", k)>> : k \in Tasks}
           \cup {<<Buf("replay", k), Buf("encoder", k)>> : k \in Tasks}
           \cup {<<Buf("eval", k), Buf("eval", k)>> : k \in EvalTasks}

\* A call of collect_rollouts(env, callback, n_episodes, n_steps, action_noise,
\* replay_buffer=..., accum_context=...).
CallCollectRollouts ==
    /\ Idle
    /\ calls = 0
    /\ calls' = calls + 1
    /\ \E ne \in 1 .. MaxEpisodes,
          ns \in {DefaultNSteps} \cup 1 .. (max_path_length + 1),
          given \in BOOLEAN, bufs \in BufferLists, accum \in BOOLEAN :
          /\ given \/ bufs = <<>>
          /\ ro' = EnterRollout(ne, ns, given, bufs, cfg.action_noise, accum)
    /\ err' = "none"
    /\ hist' = hist0
    /\ logs' = logs0
    /\ UNCHANGED <<cfg, replay_buffer, poolVars, selfVars, env, actor, lrn, cd, os>>

ReturnRollout ==
    /\ ro.pc = "returned"
    /\ os.pc = "idle"
    /\ ro' = ro0
    /\ UNCHANGED <<cfg, replay_buffer, poolVars, selfVars, env, actor, logs, lrn, cd, os, err,
                   calls, hist>>

\* ------------------------------------------------------------ initial state
CfgSet(nts, evs, posts, lens, hooks, cbs, nenvs, noises) ==
    [n_traintasks : nts, n_evaltasks : evs, num_steps_posterior : posts,
     envLen : lens, hookMode : hooks, cbTrain : cbs, num_envs : nenvs,
     action_noise : noises]

\* The state after __init__ and _setup_model (lines 167-171, 199-243) with
\* configuration c; t is the task the caller has selected (-1: none) and p the
\* number of transitions each buffer holds from earlier collection (0 after
\* construction).
InitState(c, t, p) ==
    /\ cfg = c
    /\ RBList_replay = UsedPool(c.n_traintasks, p)
    /\ RBList_encoder = UsedPool(c.n_traintasks, p)
    /\ RBList_eval = UsedPool(c.n_evaltasks, p)
    /\ RB_id = NewBuffers(c.n_traintasks, c.n_evaltasks)
    /\ replay_buffer = "None"
    /\ task_idx = t
    /\ initial_experience = FALSE
    /\ num_timesteps = 0
    /\ episode_num = 0
    /\ n_env_steps_total = 0
    /\ n_train_steps_total = 0
    /\ env = [task |-> t, epStep |-> 0]
    /\ actor = [z_means |-> "unset", z_vars |-> "unset", z |-> "unset",
                context |-> 0, inferred_from |-> 0]
    /\ logs = logs0
    /\ lrn = lrn0
    /\ cd = cd0
    /\ os = os0
    /\ ro = ro0
    /\ err = "none"
    /\ calls = 0
    /\ hist = hist0

\* learn() and reset_buffers() on an environment whose episodes end at their
\* first step or later than a rollout lasts, and a callback whose step hook
\* always returns None or always returns False; the training hooks return
\* normally.
Init ==
    \E c \in CfgSet({0, 1, MaxTasks}, {MaxEvalTasks}, {0, base_length},
                    {1, max_path_length + 1}, {"None", "False"},
                    {"ok"}, {1}, {TRUE}) :
        InitState(c, -1, 0)

RolloutNext == RolloutStart \/ RolloutOuter \/ RolloutStep \/ RolloutAfterInner
                 \/ RolloutExit
ObtainNext == ObtainStart \/ ObtainLoop \/ ObtainAfterRollout
CollectNext == CollectStart \/ CollectLoop \/ CollectAfterObtain
LearnNext == LearnStart \/ LearnIter \/ LearnBootLoop \/ LearnBootCollect
               \/ LearnBootNext \/ LearnRoundLoop \/ LearnRoundReset
               \/ LearnPhase \/ LearnPhaseDone \/ LearnGrad \/ LearnLog
               \/ LearnEnd

\* The steps the running program takes by itself.
Run == LearnNext \/ CollectNext \/ ObtainNext \/ RolloutNext \/ ReturnLearn

Next == CallLearn \/ ResetBuffers \/ Run

Spec == Init /\ [][Next]_vars

\* learn() with at least one training task and num_steps_posterior as
\* _setup_model sets it (line 235); the program keeps running once called.
InitFair ==
    \E c \in CfgSet({1, MaxTasks}, {MaxEvalTasks}, {0},
                    {1, max_path_length + 1}, {"None", "False"},
                    {"ok"}, {1}, {TRUE}) :
        InitState(c, -1, 0)

FairSpec == InitFair /\ [][Next]_vars /\ WF_vars(Run)

\* One call of collect_data on an instance whose task index is set, on any
\* environment and callback.
InitCollect ==
    \E c \in CfgSet(1 .. MaxTasks, {MaxEvalTasks}, {0}, {0}, {"free"}, {"ok"},
                    {1}, {TRUE}) :
        \E t \in 0 .. (c.n_traintasks - 1), p \in {0, 1} : InitState(c, t, p)

NextCollect == CallCollectData \/ ReturnCollect \/ CollectNext \/ ObtainNext
                 \/ RolloutNext

SpecCollect == InitCollect /\ [][NextCollect]_vars

\* learn() with a callback that is None ("absent"), whose on_training_start
\* raises, whose on_training_end raises, or whose hooks return normally.
InitLearnHooks ==
    \E c \in CfgSet({1}, {MaxEvalTasks}, {0}, {max_path_length + 1}, {"None"},
                    {"ok", "absent", "raiseStart", "raiseEnd"}, {1}, {TRUE}) :
        InitState(c, -1, 0)

SpecLearnHooks == InitLearnHooks /\ [][Next]_vars

\* One call of obtain_samples, on any environment, with a callback whose
\* hooks return None.
InitObtain ==
    \E c \in CfgSet(1 .. MaxTasks, {MaxEvalTasks}, {0}, {0}, {"None"}, {"ok"},
                    {1}, {TRUE}) :
        \E p \in {0, 1} : InitState(c, -1, p)

NextObtain == CallObtainSamples \/ ReturnObtain \/ ObtainNext \/ RolloutNext

SpecObtain == InitObtain /\ [][NextObtain]_vars

\* One call of collect_rollouts, on any environment and callback.
InitRollout ==
    \E c \in CfgSet(1 .. MaxTasks, {MaxEvalTasks}, {0}, {0},
                    {"free", "Absent", "None", "True", "Zero", "Raise",
                     "LocalsRaise"},
                    {"ok"}, {1, 2}, BOOLEAN) :
        \E p \in {0, 1} : InitState(c, -1, p)

NextRollout == CallCollectRollouts \/ ReturnRollout \/ RolloutNext

SpecRollout == InitRollout /\ [][NextRollout]_vars

\* reset_buffers() before and after one call of collect_rollouts, with any
\* number of training and evaluation tasks (also none) and buffers that are
\* empty or hold a transition of earlier collection.
InitReset ==
    \E c \in CfgSet(0 .. MaxTasks, 0 .. MaxEvalTasks, {0}, {0}, {"None"}, {"ok"},
                    {1}, {TRUE}) :
        \E p \in {0, 1} : InitState(c, -1, p)

NextReset == ResetBuffers \/ NextRollout

SpecReset == InitReset /\ [][NextReset]_vars

\* The instance as _setup_model leaves it, with any number of training and
\* evaluation tasks (also none), then one call of collect_rollouts on a list
\* of its buffers.
InitSetup ==
    \E c \in CfgSet(0 .. MaxTasks, 0 .. MaxEvalTasks, {0}, {0}, {"None"}, {"ok"},
                    {1}, {TRUE}) :
        InitState(c, -1, 0)

SpecSetup == InitSetup /\ [][NextReset]_vars

\* save_replay_buffer, load_replay_buffer and reset_buffers before and after
\* one call of collect_rollouts.
NextPersist == SaveReplayBuffer \/ LoadReplayBuffer \/ NextReset

SpecPersist == InitReset /\ [][NextPersist]_vars


\* ------------------------------------------------------------------- claims

\* C1 (as claimed): a collect_data call with num_samples >= 1 has, on return,
\* stepped the environment and written to the active task's replay buffer a
\* number of transitions that is a multiple of max_path_length and at least
\* num_samples, and _n_env_steps_total has grown by exactly that number.
C1_WritesMultipleOfPathLength ==
    (cd.pc = "returned" /\ cd.num_samples >= 1) =>
        LET written == Len(RBList_replay[task_idx]) - Len(hist.rep0)
        IN /\ written % max_path_length = 0
           /\ written >= cd.num_samples
           /\ hist.stepNo = written
           /\ n_env_steps_total - hist.env0 = written

\* C2: collect_data starts exactly ceil(num_samples / max_path_length)
\* rollouts (none when num_samples <= 0), a rollout runs only while the
\* accumulated count is below num_samples, and on return _n_env_steps_total has
\* grown by ceil(num_samples / max_path_length) * max_path_length, for every
\* update_posterior_rate.
C2_RolloutsStarted ==
    LET need == CeilDiv(cd.num_samples, max_path_length)
    IN /\ cd.pc \notin {"idle", "enter"} => hist.rollouts <= need
       /\ (cd.pc = "wait" /\ ro.pc # "idle") =>
              cd.num_transitions + os.n_steps_total < cd.num_samples
       /\ cd.pc = "returned" =>
              /\ hist.rollouts = need
              /\ cd.num_transitions >= cd.num_samples
              /\ n_env_steps_total - hist.env0 = need * max_path_length

C2_Witness ==
    /\ cd.pc = "returned"
    /\ cd.num_samples = 2 * max_path_length + 1
    /\ cd.update_posterior_rate = 2
    /\ hist.rollouts = 3

\* C3: a step at which on_step returns False ends collect_rollouts at that
\* step: it returns continue_training = False and mean reward 0.0 with the
\* steps taken so far, the interrupted episode is added neither to
\* total_episodes, _episode_num nor to the episode reward and length lists, no
\* buffer is written, and no environment step follows.
C3_CancelReturnsAtOnce ==
    [][/\ (ro.pc = "inner" /\ hist'.hookFalse) =>
            /\ ro'.pc = "returned"
            /\ ro'.ret = RolloutReturn(Zero, ro.total_steps + 1,
                                       ro.total_episodes, FALSE)
            /\ ro'.total_episodes = ro.total_episodes
            /\ episode_num' = episode_num
            /\ ro'.episode_rewards = ro.episode_rewards
            /\ ro'.total_timesteps = ro.total_timesteps
            /\ UNCHANGED poolVars
       /\ hist.hookFalse =>
            /\ num_timesteps' = num_timesteps
            /\ ro'.pc \in {"returned", "idle"}
      ]_vars

C3_Witness ==
    /\ hist.hookFalse
    /\ ro.pc = "returned"
    /\ ro.total_episodes = 1
    /\ ro.total_steps >= 2

\* The rollouts a learn() call starts when no rollout is cancelled: those of
\* the bootstrap (first call only) and of the three collections of each round.
ExpectedRollouts ==
    (IF calls = 1
     THEN cfg.n_traintasks * CeilDiv(num_initial_steps, max_path_length)
     ELSE 0)
    + num_tasks_sample * (CeilDiv(num_steps_prior, max_path_length)
                          + CeilDiv(cfg.num_steps_posterior, max_path_length)
                          + CeilDiv(num_extra_rl_steps_posterior, max_path_length))

\* C4: with n_traintasks >= 1, a learn() call that has entered its
\* meta-iteration always returns, whatever the step hook answers (also False at
\* every step), having started as many rollouts as without cancellation and
\* having run its gradient phase and on_training_end.
C4_LearnTerminates ==
    (lrn.pc = "iter" /\ cfg.n_traintasks >= 1) ~>
        (/\ lrn.pc = "returned"
         /\ hist.l_rollouts = ExpectedRollouts
         /\ lrn.train_step = num_train_steps_per_itr
         /\ hist.l_end = 1)

C4_Witness ==
    /\ cfg.hookMode = "False"
    /\ cfg.n_traintasks >= 1
    /\ lrn.pc = "returned"
    /\ calls = 2
    /\ hist.l_rollouts = ExpectedRollouts
    /\ num_timesteps > 0

\* C5 (as claimed): when collect_rollouts leaves its loops, every episode end
\* (done, or the n_steps truncation) has added exactly one to total_episodes
\* and _episode_num, one episode reward and one episode length, one reset of
\* the action noise (when given) and one log dump.
C5_EpisodeEndCountedOnce ==
    ro.pc = "exit" =>
        /\ ro.total_episodes = hist.ends
        /\ episode_num = hist.ends
        /\ Len(ro.episode_rewards) = hist.ends
        /\ Len(ro.total_timesteps) = hist.ends
        /\ logs.dumps = hist.ends
        /\ ro.action_noise => logs.noise_resets = hist.ends

\* C6: during collect_data for the active task k, the transitions stored so far
\* are, once each and in order, what RBList_replay[k] has gained; with
\* add_to_enc_buffer they are also what RBList_encoder[k] has gained, and
\* without it RBList_encoder[k] is as it was.
C6_StoredOnceInOrder ==
    cd.pc \notin {"idle", "enter"} =>
        /\ RBList_replay[task_idx] = hist.rep0 \o hist.stored
        /\ RBList_encoder[task_idx] =
               IF cd.add_to_enc_buffer THEN hist.enc0 \o hist.stored ELSE hist.enc0
        /\ \A i, j \in DOMAIN hist.stored : i < j => hist.stored[i].t < hist.stored[j].t

C6_Witness ==
    /\ cd.pc = "returned"
    /\ cd.add_to_enc_buffer
    /\ Len(hist.stored) >= 3
    /\ hist.rep0 # <<>>

\* C7: in runs of learn(), every transition in slot k of the replay or encoder
\* pool was written while the environment was set to task k by its most recent
\* reset_task; while a rollout runs, task_idx is the environment's task and the
\* buffers written are those of task_idx; and task_idx differs from the
\* environment's task only in the step before the reset_task that follows its
\* change.
C7_WritesGoToActiveTask ==
    /\ \A k \in Tasks :
          /\ \A i \in DOMAIN RBList_replay[k] : RBList_replay[k][i].task = k
          /\ \A i \in DOMAIN RBList_encoder[k] : RBList_encoder[k][i].task = k
    /\ ro.pc # "idle" =>
          /\ env.task = task_idx
          /\ \A i \in DOMAIN ro.replay_buffer : ro.replay_buffer[i].idx = task_idx
    /\ env.task # task_idx => lrn.pc \in {"boot_reset", "round_reset"}

C7_Witness ==
    /\ calls = 2
    /\ cfg.n_traintasks = 2
    /\ task_idx = 1
    /\ ro.pc = "inner"
    /\ RBList_replay[0] # <<>>
    /\ RBList_replay[1] # <<>>
    /\ RBList_encoder[1] # <<>>

\* The collections a round runs, in order.
RoundPhases ==
    <<"prior">> \o (IF cfg.num_steps_posterior > 0 THEN <<"post">> ELSE <<>>)
                \o <<"extra">>

\* C8: a learn() call runs exactly num_tasks_sample rounds before its gradient
\* phase.  In a round idx is a training task, reset_task(idx) and the reset of
\* RBList_encoder[idx] come before any collection; the prior collection asks for
\* num_steps_prior transitions for the replay and encoder buffers with no
\* posterior inference, the posterior collection runs only if
\* num_steps_posterior > 0, the extra collection asks for
\* num_extra_rl_steps_posterior transitions and leaves the encoder buffer as it
\* is; at the end of the round RBList_encoder[idx] holds exactly the
\* transitions stored by the round's prior and posterior collections.
C8_RoundOrder ==
    /\ hist.l_rounds <= num_tasks_sample
    /\ lrn.pc \in {"grad", "log", "end", "returned"} =>
          hist.l_rounds = num_tasks_sample
    /\ lrn.pc \in {"round_reset", "prior", "post", "extra", "wait"} =>
          /\ lrn.idx \in Tasks
          /\ task_idx = lrn.idx
          /\ hist.l_rounds = lrn.i
    /\ lrn.pc \in {"prior", "post", "extra", "wait"} => env.task = lrn.idx
    /\ lrn.pc = "prior" =>
          /\ RBList_encoder[lrn.idx] = <<>>
          /\ hist.l_phases = <<>>
    /\ (lrn.pc = "wait" /\ lrn.phase = "prior") =>
          /\ cd.num_samples = num_steps_prior
          /\ cd.add_to_enc_buffer
          /\ cd.update_posterior_rate = Inf
          /\ cd.pc # "enter" => hist.infer = 0
    /\ (lrn.pc = "wait" /\ lrn.phase = "post") =>
          /\ cfg.num_steps_posterior > 0
          /\ cd.num_samples = cfg.num_steps_posterior
          /\ cd.add_to_enc_buffer
    /\ (lrn.pc = "wait" /\ lrn.phase = "extra") =>
          /\ cd.num_samples = num_extra_rl_steps_posterior
          /\ ~cd.add_to_enc_buffer
          /\ cd.pc # "enter" => RBList_encoder[lrn.idx] = hist.enc0
    /\ (lrn.pc = "rounds" /\ lrn.i > 0) =>
          /\ hist.l_phases = RoundPhases
          /\ Len(RBList_encoder[lrn.idx]) = hist.l_enc
          /\ \A i \in DOMAIN RBList_encoder[lrn.idx] :
                /\ RBList_encoder[lrn.idx][i].phase \in {"prior", "post"}
                /\ RBList_encoder[lrn.idx][i].task = lrn.idx

C8_Witness ==
    /\ calls = 2
    /\ cfg.n_traintasks = 2
    /\ cfg.num_steps_posterior > 0
    /\ lrn.pc = "rounds"
    /\ lrn.i = num_tasks_sample
    /\ Len(RBList_encoder[lrn.idx]) > num_steps_prior

\* The training tasks in increasing order.
AllTasks == [i \in 1 .. cfg.n_traintasks |-> i - 1]

\* C9: the bootstrap runs in the first learn() call only.  It starts from
\* z_means = zeros, z_vars = ones and an empty context, visits the training
\* tasks 0 .. n_traintasks-1 once each in increasing order, calls reset_task
\* before each collection of num_initial_steps transitions, infers no
\* posterior, and then sets initial_experience; later calls skip it.
C9_BootstrapOnce ==
    /\ hist.l_boot # <<>> => calls = 1
    /\ initial_experience => calls >= 1
    /\ lrn.pc \in {"boot", "boot_reset", "boot_wait"} =>
          /\ calls = 1
          /\ ~initial_experience
          /\ hist.l_boot = SubSeq(AllTasks, 1,
                                  lrn.idx + (IF lrn.pc = "boot_wait" THEN 1 ELSE 0))
    /\ (lrn.pc = "boot" /\ lrn.idx = 0) =>
          /\ actor.z_means = "zeros"
          /\ actor.z_vars = "ones"
          /\ actor.context = 0
    /\ lrn.pc = "boot_wait" =>
          /\ task_idx = lrn.idx
          /\ env.task = lrn.idx
          /\ cd.num_samples = num_initial_steps
          /\ cd.update_posterior_rate = Inf
          /\ cd.add_to_enc_buffer
          /\ hist.infer = 0
    /\ lrn.pc \in {"rounds", "round_reset", "prior", "post", "extra", "wait",
                   "grad", "log", "end", "returned"} =>
          /\ initial_experience
          /\ hist.l_boot = IF calls = 1 THEN AllTasks ELSE <<>>

C9_Witness ==
    /\ calls = 2
    /\ cfg.n_traintasks = 2
    /\ lrn.pc = "prior"
    /\ initial_experience
    /\ hist.l_boot = <<>>

\* The place of a position of learn in the order of its phases.
Rank(pc) ==
    CASE pc = "enter" -> 1
      [] pc = "iter" -> 2
      [] pc \in {"boot", "boot_reset", "boot_wait"} -> 3
      [] pc \in {"rounds", "round_reset", "prior", "post", "extra", "wait"} -> 4
      [] pc = "grad" -> 5
      [] pc = "log" -> 6
      [] pc = "end" -> 7
      [] pc = "returned" -> 8
      [] OTHER -> 0

\* C10: a learn() call runs one meta-iteration, its phases in the order
\* on_training_start, bootstrap, task-sampling rounds, gradient updates, log
\* dump, on_training_end; the log dump resets the loss accumulators; from the
\* gradient phase on no environment step is taken; and the call returns after
\* one iteration, num_tasks_sample rounds, num_train_steps_per_itr gradient
\* updates, one log dump and one on_training_end.
C10_OneOrderedIteration ==
    [][/\ (lrn.pc \notin {"idle", "returned"} /\ lrn'.pc # "idle") =>
            Rank(lrn'.pc) >= Rank(lrn.pc)
       /\ lrn.pc \in {"grad", "log", "end", "returned"} =>
            /\ num_timesteps' = num_timesteps
            /\ ro'.pc = "idle"
       /\ lrn.pc = "log" =>
            /\ logs'.dumps = logs.dumps + 1
            /\ logs'.losses = 0
       /\ lrn'.pc = "returned" =>
            /\ hist'.l_iters = 1
            /\ hist'.l_rounds = num_tasks_sample
            /\ lrn'.train_step = num_train_steps_per_itr
            /\ hist'.l_logs = 1
            /\ hist'.l_end = 1
            /\ logs'.losses = 0
      ]_vars

C10_Witness ==
    /\ calls = 2
    /\ lrn.pc = "returned"
    /\ num_timesteps > 0
    /\ n_train_steps_total = 2 * num_train_steps_per_itr


\* C11: in a learn() call the gradient phase makes num_train_steps_per_itr
\* _do_training calls, each with meta_batch task indices in [0, n_traintasks)
\* (repetition allowed); _n_train_steps_total never decreases, changes only in
\* the gradient phase, grows by one with each _do_training call and so by
\* num_train_steps_per_itr per learn() call.
C11_GradientPhase ==
    [][/\ n_train_steps_total' >= n_train_steps_total
       /\ n_train_steps_total' # n_train_steps_total =>
            /\ lrn.pc = "grad"
            /\ logs'.losses = logs.losses + 1
       /\ logs'.losses > logs.losses =>
            /\ n_train_steps_total' = n_train_steps_total + 1
            /\ lrn'.train_step = lrn.train_step + 1
            /\ lrn'.train_step <= num_train_steps_per_itr
            /\ hist'.l_batch.size = meta_batch
            /\ hist'.l_batch.inRange
       /\ (lrn.pc = "grad" /\ lrn'.pc = "log") =>
            /\ lrn.train_step = num_train_steps_per_itr
            /\ logs.losses = num_train_steps_per_itr
       /\ lrn'.pc = "returned" =>
            n_train_steps_total' = calls' * num_train_steps_per_itr
      ]_vars

C11_Witness ==
    /\ calls = 2
    /\ lrn.pc = "returned"
    /\ cfg.n_traintasks = 2
    /\ hist.l_batch.repeated
    /\ n_train_steps_total = 2 * num_train_steps_per_itr


\* C12: in collect_data with a finite update_posterior_rate r, infer_posterior
\* is invoked once after every obtain_samples call, that is after every r
\* trajectories (fewer only for the call that completes num_samples), each
\* time with a context taken from the active task's encoder buffer as it then
\* is; with an infinite update_posterior_rate it is never invoked.
C12_PosteriorCadence ==
    [][/\ (cd.pc # "idle" /\ cd.update_posterior_rate = Inf) => hist'.infer = 0
       /\ (cd.pc \in {"loop", "returned"} /\ cd.update_posterior_rate # Inf) =>
            hist.infer = CeilDiv(hist.trajs, cd.update_posterior_rate)
       /\ (cd.pc = "wait" /\ cd.update_posterior_rate # Inf /\ os.pc # "idle") =>
            hist.infer * cd.update_posterior_rate = hist.trajs - os.n_trajs
       /\ (cd.pc # "enter" /\ hist'.infer # hist.infer) =>
            /\ cd.pc = "wait" /\ os.pc = "returned"
            /\ hist'.infer = hist.infer + 1
            /\ os.n_trajs >= 1
            /\ \/ os.n_trajs = cd.update_posterior_rate
               \/ cd'.num_transitions >= cd.num_samples
            /\ actor'.z_means = "posterior"
            /\ actor'.inferred_from = Len(RBList_encoder[task_idx])
      ]_vars

C12_Witness ==
    /\ cd.pc = "returned"
    /\ cd.update_posterior_rate = 2
    /\ cd.add_to_enc_buffer
    /\ hist.trajs = 3
    /\ hist.infer = 2
    /\ actor.inferred_from = Len(RBList_encoder[task_idx])
    /\ actor.inferred_from >= 2


\* C13 (as claimed): within one collect_data call clear_z is invoked once,
\* before the first rollout, and a call that has collected T trajectories has
\* invoked sample_z floor(T / resample_z_rate) times, for every
\* resample_z_rate >= 1 and every update_posterior_rate.
C13_ResampleCadence ==
    /\ cd.pc \notin {"idle", "enter"} => hist.clearZ = 1
    /\ (cd.pc # "idle" /\ hist.rollouts > 0) => hist.clearZ = 1
    /\ cd.pc = "returned" => hist.sampleZ = hist.trajs \div cd.resample_z_rate


\* One pass of collect_rollouts' inner loop as it goes when no hook takes
\* part: the step is counted, the transition is added to every buffer of the
\* list, the loop goes on or the episode ends, nothing is raised.
PlainStep ==
    LET tr == Transition(hist.stepNo + 1)
        bufs == IF ro.rb_given THEN ro.replay_buffer ELSE <<>>
        Added(pool, p) ==
            [k \in DOMAIN pool |-> pool[k] \o [i \in 1 .. Count(bufs, p, k) |-> tr]]
    IN /\ err' = "none"
       /\ ro'.pc \in {"inner", "afterInner"}
       /\ ro'.pc = "inner" => ~ro'.done
       /\ ro'.continue_training
       /\ ro'.total_steps = ro.total_steps + 1
       /\ ro'.episode_reward = ro.episode_reward + Reward
       /\ num_timesteps' = num_timesteps + 1
       /\ hist'.stored = Append(hist.stored, tr)
       /\ RBList_replay' = Added(RBList_replay, "replay")
       /\ RBList_encoder' = Added(RBList_encoder, "encoder")
       /\ RBList_eval' = Added(RBList_eval, "eval")

\* The return of collect_rollouts from the end of its loops.
PlainExit ==
    /\ err' = "none"
    /\ ro'.pc = "returned"
    /\ ro'.ret = RolloutReturn(
                    IF ro.total_episodes > 0 THEN Mean(ro.episode_rewards) ELSE Zero,
                    ro.total_steps, ro.total_episodes, TRUE)

\* C14: with a callback whose on_rollout_start, on_step and on_rollout_end
\* raise, or whose update_locals raises, nothing propagates out of
\* collect_rollouts: every pass of the loop and the return go exactly as with
\* a callback whose hooks return None.
C14_HookErrorsSwallowed ==
    [][(cfg.hookMode \in {"Raise", "LocalsRaise", "None"} /\ cfg.num_envs = 1) =>
          /\ err' = "none"
          /\ ro.pc = "enter" => ro'.pc = "outer"
          /\ ro.pc = "inner" => PlainStep
          /\ ro.pc = "exit" => PlainExit
      ]_vars

C14_Witness ==
    /\ cfg.hookMode = "Raise"
    /\ ro.pc = "returned"
    /\ ro.ret.continue_training
    /\ ro.ret.total_steps >= 2
    /\ ro.ret.total_episodes >= 1
    /\ Len(hist.stored) = ro.ret.total_steps
    /\ err = "none"


\* C15 (as claimed): no learn() call ends with the error of a missing or
\* failing callback: whatever on_training_start and on_training_end do, every
\* call that has ended has collected data and made its gradient updates.
C15_LearnHooksTolerated ==
    /\ err \notin {"AttributeError", "HookError"}
    /\ (calls >= 1 /\ lrn.pc = "idle") =>
          /\ num_timesteps > 0
          /\ n_train_steps_total = calls * num_train_steps_per_itr


\* C16 (as claimed): a collect_rollouts call that passed its assertions, made
\* with a callback, has on return invoked on_rollout_start once and
\* on_rollout_end once, whichever way it returned, and a call that returns from
\* the end of its loops returns the mean reward over the episodes that ended
\* in it (each step's reward is Reward, and every step of such a call belongs
\* to an episode that ended), or 0.0 when none ended.
C16_RolloutHooksAndMean ==
    (ro.pc = "returned" /\ cfg.hookMode # "Absent") =>
        /\ hist.rolloutStart = 1
        /\ hist.rolloutEnd = 1
        /\ ro.ret.continue_training =>
              IF hist.ends = 0
              THEN ro.ret.mean_reward = Zero
              ELSE ro.ret.mean_reward.num * hist.ends
                      = ro.total_steps * Reward * ro.ret.mean_reward.den


\* C17: a step hook that returns None, True or 0 (equal to False without being
\* the object False) at every step never cancels: every pass of
\* collect_rollouts' loop and its return go as they do when the callback is
\* missing, and continue_training is True in the value returned.
C17_OnlyFalseCancels ==
    [][(cfg.hookMode \in {"None", "True", "Zero", "Absent"} /\ cfg.num_envs = 1) =>
          /\ ~hist'.hookFalse
          /\ ro.pc = "inner" => PlainStep
          /\ ro.pc = "exit" => PlainExit
          /\ ro'.pc = "returned" =>
                /\ ro'.ret.continue_training
                /\ ro'.ret.total_steps = hist'.stepNo
                /\ Len(hist'.stored) = hist'.stepNo
      ]_vars

C17_Witness ==
    /\ cfg.hookMode = "Zero"
    /\ ro.pc = "returned"
    /\ ro.rb_given
    /\ ro.replay_buffer # <<>>
    /\ ro.ret.continue_training
    /\ ro.ret.total_steps = 3
    /\ ~hist.hookFalse

\* C19: collect_rollouts on an environment whose num_envs is not 1 ends with
\* the assertion's error at its first step: on_rollout_start is not invoked,
\* the environment is neither reset nor stepped, no buffer is written and
\* num_timesteps and _episode_num keep their values.
C19_MultiEnvFailsFast ==
    [][cfg.num_envs # 1 =>
          /\ ro.pc = "enter" =>
                /\ err' = "AssertionError"
                /\ ro'.pc = "idle"
          /\ ro'.pc \in {"idle", "enter"}
          /\ hist'.rolloutStart = 0
          /\ hist'.stepNo = 0
          /\ UNCHANGED <<poolVars, num_timesteps, episode_num, env, actor>>
      ]_vars

C19_Witness ==
    /\ cfg.num_envs = 2
    /\ calls = 1
    /\ err = "AssertionError"
    /\ ro.pc = "idle"
    /\ num_timesteps = 0


\* C18: obtain_samples called with max_samples and max_trajs both infinite
\* ends with the assertion's error at its first step: no rollout is started,
\* no hook is invoked, no buffer is written, and the counters, the environment
\* and the actor's z keep their values.
C18_InfiniteLimitsRejected ==
    [][(os.pc = "enter" /\ os.max_samples = Inf /\ os.max_trajs = Inf) =>
          /\ err' = "AssertionError"
          /\ os'.pc = "idle"
          /\ ro'.pc = "idle"
          /\ UNCHANGED <<poolVars, selfVars, env, actor, logs, hist>>
      ]_vars

C18_Witness ==
    /\ calls = 1
    /\ err = "AssertionError"
    /\ os.pc = "idle"
    /\ hist.rollouts = 0
    /\ hist.rolloutStart = 0
    /\ num_timesteps = 0


\* C20: with n_traintasks = 0 every learn() call ends with ValueError at the
\* first draw of a task index: no index is produced, no reset_task is issued,
\* no rollout is started, no environment step is taken and no gradient update
\* is made.
C20_EmptyTaskSetFails ==
    cfg.n_traintasks = 0 =>
        /\ lrn.pc \in {"idle", "enter", "iter", "boot", "rounds"}
        /\ lrn.pc # "idle" => err = "none"
        /\ (calls >= 1 /\ lrn.pc = "idle") => err = "ValueError"
        /\ task_idx = -1
        /\ env.task = -1
        /\ cd.pc = "idle" /\ os.pc = "idle" /\ ro.pc = "idle"
        /\ hist.l_rollouts = 0
        /\ hist.l_rounds = 0
        /\ num_timesteps = 0
        /\ n_train_steps_total = 0
        /\ logs.losses = 0

C20_Witness ==
    /\ cfg.n_traintasks = 0
    /\ calls = 2
    /\ lrn.pc = "idle"
    /\ err = "ValueError"
    /\ initial_experience

\* All buffers of the three pools are empty.
AllEmpty ==
    /\ \A k \in DOMAIN RBList_replay : RBList_replay[k] = <<>>
    /\ \A k \in DOMAIN RBList_encoder : RBList_encoder[k] = <<>>
    /\ \A k \in DOMAIN RBList_eval : RBList_eval[k] = <<>>

\* C21: reset_buffers leaves n_traintasks replay buffers, n_traintasks encoder
\* buffers and n_evaltasks eval buffers, every one of them empty whatever the
\* pools held before, so no slot keeps a transition from before the reset;
\* applied to pools that are already empty it changes nothing (a second reset
\* gives the state of the first).
C21_ResetEmptiesAll ==
    [][(Idle /\ calls' = calls) =>
          /\ DOMAIN RBList_replay' = Tasks
          /\ DOMAIN RBList_encoder' = Tasks
          /\ DOMAIN RBList_eval' = EvalTasks
          /\ \A k \in Tasks : RBList_replay'[k] = <<>> /\ RBList_encoder'[k] = <<>>
          /\ \A k \in EvalTasks : RBList_eval'[k] = <<>>
          /\ AllEmpty => UNCHANGED poolVars
      ]_vars

C21_Witness ==
    /\ Idle
    /\ calls = 1
    /\ cfg.n_traintasks = MaxTasks
    /\ hist.dropped.replay > cfg.n_traintasks
    /\ hist.dropped.encoder > 0
    /\ hist.dropped.eval > 0
    /\ AllEmpty

\* What the buffer a slot refers to holds.
Content(b) ==
    CASE b.pool = "replay" -> RBList_replay[b.idx]
      [] b.pool = "encoder" -> RBList_encoder[b.idx]
      [] b.pool = "eval" -> RBList_eval[b.idx]

\* C22: for every n_traintasks >= 0 and n_evaltasks >= 0, _setup_model leaves
\* n_traintasks replay buffers, n_traintasks encoder buffers and n_evaltasks
\* eval buffers, all empty; no two slots of the pools refer to the same
\* buffer, and a step that adds a transition to the buffers of a list leaves
\* every buffer the list does not name as it was.
C22_SetupPools ==
    [][/\ calls = 0 =>
            /\ DOMAIN RBList_replay = Tasks
            /\ DOMAIN RBList_encoder = Tasks
            /\ DOMAIN RBList_eval = EvalTasks
            /\ AllEmpty
       /\ \A a, b \in Slots(cfg.n_traintasks, cfg.n_evaltasks) :
             a # b => RB_id[a] # RB_id[b]
       /\ ro.pc = "inner" =>
             LET bufs == IF ro.rb_given THEN ro.replay_buffer ELSE <<>>
             IN \A b \in Slots(cfg.n_traintasks, cfg.n_evaltasks) :
                   LET named == Cardinality({i \in DOMAIN bufs : bufs[i] = b})
                   IN /\ named = 0 => Content(b)' = Content(b)
                      /\ Len(Content(b)') = Len(Content(b)) + named
      ]_vars

C22_Witness ==
    /\ cfg.n_traintasks = MaxTasks
    /\ cfg.n_evaltasks = MaxEvalTasks
    /\ ro.pc = "inner"
    /\ ro.replay_buffer = <<Buf("replay", 1)>>
    /\ Len(RBList_replay[1]) = 2
    /\ RBList_replay[0] = <<>>
    /\ RBList_encoder[1] = <<>>
    /\ RBList_eval[0] = <<>>

\* C23: save_replay_buffer and load_replay_buffer end, for every argument,
\* with NotImplementedError and never return normally; the replay_buffer
\* field, the three pools and the counters are as before the call.
C23_PersistenceNotImplemented ==
    [][(hist'.io # hist.io /\ hist'.io.op # "none") =>
          /\ err' = "NotImplementedError"
          /\ replay_buffer' = replay_buffer
          /\ replay_buffer' = "None"
          /\ UNCHANGED <<poolVars, selfVars>>
          /\ Idle'
      ]_vars

C23_Witness ==
    /\ hist.io = [op |-> "load", path |-> "b.pkl", truncate_last_traj |-> FALSE]
    /\ err = "NotImplementedError"
    /\ calls = 1
    /\ replay_buffer = "None"
    /\ cfg.n_traintasks = MaxTasks
    /\ cfg.n_evaltasks = MaxEvalTasks
    /\ Len(RBList_replay[1]) > 1
    /\ RBList_eval[0] # <<>>

\* C24 (as claimed): in runs of learn() and reset_buffers() with at least one
\* training task and a step hook that never cancels, every task index the
\* gradient phase hands to the gradient update has a replay buffer and an
\* encoder buffer that each hold at least one transition.
C24_GradientBuffersFilled ==
    (cfg.n_traintasks >= 1 /\ cfg.hookMode = "None" /\ lrn.pc = "grad"
       /\ lrn.train_step > 0) => hist.l_batch.filled

\* The transitions the buffer of slot b has received in the current call
\* (those of earlier collection are marked "old").
Received(b) ==
    Cardinality({i \in DOMAIN Content(b) : Content(b)[i].phase # "old"})

\* C25 (as claimed): when collect_rollouts returns, on every exit path, each
\* buffer of the supplied list has received exactly total_steps transitions,
\* and num_timesteps has advanced by total_steps.
C25_BuffersReceiveTotalSteps ==
    (ro.pc = "returned" /\ ro.rb_given) =>
        /\ \A i \in DOMAIN ro.replay_buffer :
              Received(ro.replay_buffer[i]) = ro.ret.total_steps
        /\ num_timesteps = ro.ret.total_steps

\* C25 (amended): when collect_rollouts returns, num_timesteps has advanced
\* by total_steps on every exit path; each buffer has received, once per
\* occurrence in the supplied list, total_steps transitions when the call
\* returns from the end of its loops and total_steps - 1 when it returns
\* because on_step answered False (that step is counted but not stored); a
\* buffer the list does not name has received none.
C25_BuffersReceiveStoredSteps ==
    ro.pc = "returned" =>
        LET bufs == IF ro.rb_given THEN ro.replay_buffer ELSE <<>>
            kept == IF ro.ret.continue_training THEN ro.ret.total_steps
                    ELSE ro.ret.total_steps - 1
        IN /\ \A b \in Slots(cfg.n_traintasks, cfg.n_evaltasks) :
                 Received(b) = kept * Cardinality({i \in DOMAIN bufs : bufs[i] = b})
           /\ num_timesteps = ro.ret.total_steps

C25_Witness ==
    /\ ro.pc = "returned"
    /\ ~ro.ret.continue_training
    /\ ro.ret.total_steps = 3
    /\ ro.replay_buffer = <<Buf("replay", 0), Buf("encoder", 0)>>
    /\ Received(Buf("replay", 0)) = 2
    /\ Received(Buf("encoder", 0)) = 2
    /\ Len(RBList_replay[0]) = 3

\* C26: a rollout started by obtain_samples takes at most max_path_length
\* environment steps, also on an environment that never signals done; so the
\* steps taken in a collect_data call never exceed max_path_length per
\* rollout started, and on return _n_env_steps_total has grown by at least the
\* number of environment steps the call has taken.
C26_NominalNeverUndercounts ==
    /\ (os.pc = "wait" /\ ro.pc # "idle") =>
          /\ ro.n_steps = max_path_length
          /\ ro.total_steps <= max_path_length
    /\ cd.pc \notin {"idle", "enter"} =>
          hist.stepNo <= hist.rollouts * max_path_length
    /\ cd.pc = "returned" => n_env_steps_total - hist.env0 >= hist.stepNo

C26_Witness ==
    /\ cd.pc = "returned"
    /\ hist.rollouts = 2
    /\ logs.dumps = 0
    /\ ~hist.hookFalse
    /\ hist.stepNo = 2 * max_path_length
    /\ n_env_steps_total - hist.env0 = hist.stepNo

\* Buffer old is a prefix of buffer new: nothing was removed or replaced.
Extends(new, old) ==
    /\ Len(new) >= Len(old)
    /\ SubSeq(new, 1, Len(old)) = old

\* C27: at every step of learn(), the replay and encoder buffers of the tasks
\* other than the current task index are unchanged, no eval buffer changes, no
\* replay buffer loses a transition, and an encoder buffer loses transitions
\* only by the reset of the sampled task's encoder buffer at the start of its
\* round.
C27_LearnFrame ==
    [][lrn.pc # "idle" =>
          /\ \A k \in Tasks :
                k # task_idx =>
                   /\ RBList_replay'[k] = RBList_replay[k]
                   /\ RBList_encoder'[k] = RBList_encoder[k]
          /\ RBList_eval' = RBList_eval
          /\ \A k \in Tasks : Extends(RBList_replay'[k], RBList_replay[k])
          /\ \A k \in Tasks :
                \/ Extends(RBList_encoder'[k], RBList_encoder[k])
                \/ /\ lrn.pc = "round_reset"
                   /\ k = lrn.idx
                   /\ k = task_idx
                   /\ RBList_encoder'[k] = <<>>
      ]_vars

C27_Witness ==
    /\ cfg.n_traintasks = MaxTasks
    /\ lrn.pc = "prior"
    /\ task_idx = 1
    /\ calls = 2
    /\ RBList_encoder[1] = <<>>
    /\ RBList_replay[1] # <<>>
    /\ RBList_replay[0] # <<>>
    /\ RBList_encoder[0] # <<>>
    /\ RBList_eval[0] = <<>>

\* C28 (as claimed): collect_rollouts called with n_episodes = k >= 1 and
\* n_steps left at its default collects k episodes: it returns
\* total_episodes = k and has taken at least k environment steps.
C28_EpisodesWithDefaultSteps ==
    (ro.pc = "returned" /\ ro.n_steps = DefaultNSteps /\ ro.n_episodes >= 1) =>
        /\ ro.ret.total_episodes = ro.n_episodes
        /\ ro.ret.total_steps >= ro.n_episodes
        /\ hist.stepNo >= ro.n_episodes

=============================================================================
